---- MODULE Spec2Model ----
(***************************************************************************)
(* Scheduling core of the legal-intake backend: the availability resolver  *)
(* (get_calendar_availability), the schedule store (firm_availability,     *)
(* blocked_dates) and the Google OAuth credential lifecycle                *)
(* (GoogleTokenRefreshService).                                            *)
(*                                                                         *)
(* Instants are naive UTC datetimes counted in minutes from 2025-06-23     *)
(* 00:00, a Monday.  A date is a day number from that Monday.  MongoDB     *)
(* collections are sequences of documents in insertion order; find_one     *)
(* and update_one act on the first document that matches the filter.       *)
(* An optional value is <<>> (None) or <<x>>.                              *)
(***************************************************************************)
EXTENDS Integers, Sequences, FiniteSets, TLC

VARIABLES now, connected_calendars, firm_availability, blocked_dates,
          appointments, cases, calls, cred_last, avail_last

vars == <<now, connected_calendars, firm_availability, blocked_dates,
          appointments, cases, calls, cred_last, avail_last>>

\* ---------------------------------------------------------------- bounds
\* Number of times the clock moves.
MaxTicks == 1
\* Lifetime, in minutes, the token endpoint gives an access token.
TokenLifetime == 60
\* Largest lookahead (days) a caller passes to get_calendar_availability.
MaxDays == 2
\* Largest number of busy periods the free/busy answer holds.
MaxBusy == 1
\* Largest number of blocked-date documents in the collection.
MaxBlocked == 2
\* Number of get_valid_credentials calls that may be in flight together.
MaxCalls == 2
\* Largest refresh_error_count a call reads before it writes the next one.
MaxErrors == 2
\* Appointments booked in one behaviour.
MaxAppointments == 2

\* ------------------------------------------------------ program constants
BufferMinutes == 5
MinutesPerHour == 60
MinutesPerDay == 1440
DefaultStartHour == 9
DefaultEndHour == 17
FirstWeekendDay == 5

\* ------------------------------------------------------------- optionals
None == <<>>

Some(x) == <<x>>

\* Requests are for ThisFirm; OtherFirm has documents in the collections.
ThisFirm == "f1"

OtherFirm == "f2"

\* The clock starts Monday 08:30 and moves by half an hour or by a day.
HalfHour == MinutesPerHour \div 2

StartNow == 8 * MinutesPerHour + HalfHour

TickSteps == {HalfHour, MinutesPerDay}

TicksOf(clock) ==
    ((clock - StartNow) \div MinutesPerDay)
      + (((clock - StartNow) % MinutesPerDay) \div HalfHour)

\* ----------------------------------------------------- MongoDB primitives
FindIndex(coll, firm_id) ==
    IF \E i \in 1..Len(coll) : coll[i].firm_id = firm_id
    THEN CHOOSE i \in 1..Len(coll) :
            /\ coll[i].firm_id = firm_id
            /\ \A j \in 1..(i - 1) : coll[j].firm_id # firm_id
    ELSE 0

find_one(coll, firm_id) ==
    IF FindIndex(coll, firm_id) = 0 THEN None
    ELSE Some(coll[FindIndex(coll, firm_id)])

\* update_one(filter, {"$set": update_data}): only the first match changes.
update_one(coll, firm_id, update_data) ==
    [i \in 1..Len(coll) |->
        IF i = FindIndex(coll, firm_id)
        THEN [k \in DOMAIN coll[i] |->
                IF k \in DOMAIN update_data THEN update_data[k] ELSE coll[i][k]]
        ELSE coll[i]]

CountFor(coll, firm_id) ==
    Cardinality({i \in 1..Len(coll) : coll[i].firm_id = firm_id})

\* ------------------------------------------------- credential lifecycle
\* An access token is opaque to the program; exp is the instant at which
\* the remote API stops accepting it.
AccessToken(exp) == [exp |-> exp]

TokenExpired(doc, clock) ==
    /\ doc.access_token # None
    /\ doc.access_token[1].exp <= clock

TokenRefreshResult(success, credentials, error, needs_reauth) ==
    [success |-> success, credentials |-> credentials,
     error |-> error, needs_reauth |-> needs_reauth]

\* The Credentials object is built without an expiry argument.
create_credentials(access_token, refresh_token) ==
    [token |-> access_token, refresh_token |-> refresh_token, expiry |-> None]

\* should_refresh_token as it would be without the refresh-token test.
ShouldRefreshWithoutToken(credentials, clock) ==
    IF credentials.expiry = None THEN TRUE
    ELSE credentials.expiry[1] <= clock + BufferMinutes

should_refresh_token(credentials, clock) ==
    IF credentials.refresh_token = None THEN FALSE
    ELSE IF credentials.expiry = None THEN TRUE
    ELSE credentials.expiry[1] <= clock + BufferMinutes

\* What credentials.refresh(Request()) can do: answer with a new token or
\* raise RefreshError (invalid_grant, invalid_client, other) or another
\* exception.
RefreshOutcomes ==
    {"ok", "invalid_grant", "invalid_client", "refresh_error", "exception"}

Refreshed(credentials, clock) ==
    [token |-> Some(AccessToken(clock + TokenLifetime)),
     refresh_token |-> credentials.refresh_token,
     expiry |-> Some(clock + TokenLifetime)]

refresh_credentials(credentials, outcome, clock) ==
    IF credentials.refresh_token = None
    THEN TokenRefreshResult(FALSE, None, "No refresh token available", TRUE)
    ELSE IF outcome = "ok"
    THEN TokenRefreshResult(TRUE, Some(Refreshed(credentials, clock)), "", FALSE)
    ELSE IF outcome = "invalid_grant"
    THEN TokenRefreshResult(FALSE, None, "Refresh token expired or revoked", TRUE)
    ELSE IF outcome = "invalid_client"
    THEN TokenRefreshResult(FALSE, None, "OAuth client configuration error", TRUE)
    ELSE IF outcome = "refresh_error"
    THEN TokenRefreshResult(FALSE, None, "Token refresh failed", TRUE)
    ELSE TokenRefreshResult(FALSE, None, "Unexpected refresh error", TRUE)

\* update_connection_tokens as it would be if the new access token were
\* left out of the update.
UpdateStatusOnly(coll, firm_id, credentials) ==
    update_one(coll, firm_id,
        [token_status |-> "active", refresh_error_count |-> 0])

update_connection_tokens(coll, firm_id, credentials) ==
    update_one(coll, firm_id,
        IF credentials.expiry # None
        THEN [access_token |-> credentials.token,
              token_status |-> "active",
              refresh_error_count |-> 0,
              token_expiry |-> credentials.expiry]
        ELSE [access_token |-> credentials.token,
              token_status |-> "active",
              refresh_error_count |-> 0])

\* The find_one inside mark_connection_needs_reauth: the count it will write.
NextErrorCount(coll, firm_id) ==
    IF find_one(coll, firm_id) = None THEN None
    ELSE Some(find_one(coll, firm_id)[1].refresh_error_count + 1)

\* The update_one of mark_connection_needs_reauth, given the count read.
MarkWrite(coll, firm_id, error_message, count) ==
    update_one(coll, firm_id,
        IF error_message = ""
        THEN [token_status |-> "needs_reauth"]
        ELSE IF count = None
        THEN [token_status |-> "needs_reauth",
              last_refresh_error |-> Some(error_message)]
        ELSE [token_status |-> "needs_reauth",
              last_refresh_error |-> Some(error_message),
              refresh_error_count |-> count[1]])

\* mark_connection_needs_reauth as it would be if it recorded the error
\* and left token_status alone.
MarkErrorOnly(coll, firm_id, error_message) ==
    update_one(coll, firm_id,
        IF NextErrorCount(coll, firm_id) = None
        THEN [last_refresh_error |-> Some(error_message)]
        ELSE [last_refresh_error |-> Some(error_message),
              refresh_error_count |-> NextErrorCount(coll, firm_id)[1]])

mark_connection_needs_reauth(coll, firm_id, error_message) ==
    MarkWrite(coll, firm_id, error_message, NextErrorCount(coll, firm_id))

\* The answer for a firm with no connection, as it would be if it were
\* reported like a connection that needs re-authentication.
NoConnectionAsNeedsReauth ==
    TokenRefreshResult(FALSE, None, "Connection needs re-authentication", TRUE)

\* The answer of get_valid_credentials for a firm with no connection.
NoConnectionResult ==
    TokenRefreshResult(FALSE, None, "No Google connection found", TRUE)

\* LoadCredentials as it would be without the token_status test.
LoadWithoutStatusCheck(coll, firm_id, clock) ==
    IF find_one(coll, firm_id) = None
    THEN [next |-> "return", credentials |-> None,
          result |-> NoConnectionResult]
    ELSE LET connection == find_one(coll, firm_id)[1] IN
      IF FALSE
      THEN [next |-> "return", credentials |-> None,
            result |-> TokenRefreshResult(FALSE, None,
                          "Connection needs re-authentication", TRUE)]
      ELSE IF connection.access_token = None
      THEN [next |-> "return", credentials |-> None,
            result |-> TokenRefreshResult(FALSE, None,
                          "No access token found", TRUE)]
      ELSE LET credentials == create_credentials(connection.access_token,
                                                 connection.refresh_token) IN
        IF should_refresh_token(credentials, clock)
        THEN [next |-> "refresh", credentials |-> Some(credentials),
              result |-> TokenRefreshResult(FALSE, None, "", FALSE)]
        ELSE [next |-> "return", credentials |-> Some(credentials),
              result |-> TokenRefreshResult(TRUE, Some(credentials), "", FALSE)]

\* The first part of get_valid_credentials, up to the decision to refresh.
\* next says what the call does after it: "return", or "refresh".
LoadCredentials(coll, firm_id, clock) ==
    IF find_one(coll, firm_id) = None
    THEN [next |-> "return", credentials |-> None,
          result |-> NoConnectionResult]
    ELSE LET connection == find_one(coll, firm_id)[1] IN
      IF connection.token_status = "needs_reauth"
      THEN [next |-> "return", credentials |-> None,
            result |-> TokenRefreshResult(FALSE, None,
                          "Connection needs re-authentication", TRUE)]
      ELSE IF connection.access_token = None
      THEN [next |-> "return", credentials |-> None,
            result |-> TokenRefreshResult(FALSE, None,
                          "No access token found", TRUE)]
      ELSE LET credentials == create_credentials(connection.access_token,
                                                 connection.refresh_token) IN
        IF should_refresh_token(credentials, clock)
        THEN [next |-> "refresh", credentials |-> Some(credentials),
              result |-> TokenRefreshResult(FALSE, None, "", FALSE)]
        ELSE [next |-> "return", credentials |-> Some(credentials),
              result |-> TokenRefreshResult(TRUE, Some(credentials), "", FALSE)]

\* get_valid_credentials run without interruption.  network tells whether
\* credentials.refresh(Request()) was called.
get_valid_credentials(coll, firm_id, outcome, clock) ==
    LET load == LoadCredentials(coll, firm_id, clock) IN
    IF load.next = "return"
    THEN [result |-> load.result, coll |-> coll, network |-> FALSE]
    ELSE LET refresh_result ==
                 refresh_credentials(load.credentials[1], outcome, clock) IN
      IF refresh_result.success
      THEN [result |-> refresh_result,
            coll |-> update_connection_tokens(coll, firm_id,
                         refresh_result.credentials[1]),
            network |-> TRUE]
      ELSE [result |-> refresh_result,
            coll |-> mark_connection_needs_reauth(coll, firm_id,
                         refresh_result.error),
            network |-> TRUE]

\* get_connection_health as it would be if it recorded its visit on the
\* connection the way a failed refresh does.
HealthMarksConnection(coll, firm_id) ==
    [report |-> [connected |-> find_one(coll, firm_id) # None,
                 status |-> "error", needs_reauth |-> TRUE, error_count |-> 0,
                 last_error |-> None, has_refresh_token |-> FALSE],
     coll |-> mark_connection_needs_reauth(coll, firm_id, "health check"),
     network |-> FALSE]

\* GoogleTokenRefreshService.get_connection_health: one find_one and a
\* projection of the document found.  The report of a firm without a
\* connection has the first three keys only; the others stand here at
\* the values .get() gives for them.
get_connection_health(coll, firm_id) ==
    [report |->
        IF find_one(coll, firm_id) = None
        THEN [connected |-> FALSE, status |-> "not_connected",
              needs_reauth |-> TRUE, error_count |-> 0, last_error |-> None,
              has_refresh_token |-> FALSE]
        ELSE LET connection == find_one(coll, firm_id)[1]
             IN [connected |-> TRUE,
                 status |-> connection.token_status,
                 needs_reauth |-> connection.token_status = "needs_reauth",
                 error_count |-> connection.refresh_error_count,
                 last_error |-> connection.last_refresh_error,
                 has_refresh_token |-> connection.refresh_token # None],
     coll |-> coll,
     network |-> FALSE]

\* store_calendar_connection: the document written after an OAuth consent.
\* auto_select_primary_calendar falls back to "primary" when it fails.
CalendarData(firm_id, access_token, refresh_token) ==
    [firm_id |-> firm_id,
     access_token |-> access_token,
     refresh_token |-> refresh_token,
     calendar_id |-> "primary",
     token_status |-> "active",
     token_expiry |-> None,
     refresh_error_count |-> 0,
     last_refresh_error |-> None]

\* store_calendar_connection as it would be if it inserted without looking
\* for a document of the firm.
StoreAlwaysInserts(coll, firm_id, access_token, refresh_token) ==
    Append(coll, CalendarData(firm_id, access_token, refresh_token))

store_calendar_connection(coll, firm_id, access_token, refresh_token) ==
    IF find_one(coll, firm_id) # None
    THEN update_one(coll, firm_id,
                    CalendarData(firm_id, access_token, refresh_token))
    ELSE Append(coll, CalendarData(firm_id, access_token, refresh_token))

RefreshTokens == {None, Some("rt")}

\* -------------------------------------------------------- schedule store
DayNames ==
    <<"monday", "tuesday", "wednesday", "thursday", "friday", "saturday",
      "sunday">>

\* check_date.weekday(): 0 is Monday.
Weekday(check_date) == check_date % 7

\* check_date.strftime("%A").lower()
WeekdayName(check_date) == DayNames[Weekday(check_date) + 1]

TimeSlot(enabled, start_time, end_time) ==
    [enabled |-> enabled, start_time |-> start_time, end_time |-> end_time]

\* WeeklySchedule(): Monday to Friday enabled 09:00-17:00, weekend disabled.
DefaultWeeklySchedule ==
    [d \in {DayNames[i] : i \in 1..7} |->
        TimeSlot(d \notin {"saturday", "sunday"}, "09:00", "17:00")]

\* map(int, s.split(':')) on the time strings used here; a string that is
\* not in the table does not parse (ValueError).
TimeTable ==
    [s \in {"09:00", "09:30", "11:00", "12:00", "17:00", "25:00"} |->
        CASE s = "09:00" -> <<9, 0>>
          [] s = "09:30" -> <<9, 30>>
          [] s = "11:00" -> <<11, 0>>
          [] s = "12:00" -> <<12, 0>>
          [] s = "17:00" -> <<17, 0>>
          [] s = "25:00" -> <<25, 0>>]

ParseHM(s) == IF s \in DOMAIN TimeTable THEN Some(TimeTable[s]) ELSE None

\* date.isoformat() and date.fromisoformat() on the days from 2025-06-23.
isoformat(d) == IF d <= 7 THEN <<2025, 6, 23 + d>> ELSE <<2025, 7, d - 7>>

fromisoformat(iso) == IF iso[2] = 6 THEN iso[3] - 23 ELSE iso[3] + 7

FirmAvailabilityDoc(firm_id, timezone, weekly_schedule) ==
    [firm_id |-> firm_id, timezone |-> timezone,
     weekly_schedule |-> weekly_schedule]

\* create_default_availability as it would be if the default were returned
\* and not inserted.
CreateDefaultNotStored(coll, firm_id) ==
    [value |-> Some(FirmAvailabilityDoc(firm_id, "America/Los_Angeles",
                                        DefaultWeeklySchedule)),
     coll |-> coll]

create_default_availability(coll, firm_id) ==
    [value |-> Some(FirmAvailabilityDoc(firm_id, "America/Los_Angeles",
                                        DefaultWeeklySchedule)),
     coll |-> Append(coll, FirmAvailabilityDoc(firm_id, "America/Los_Angeles",
                                               DefaultWeeklySchedule))]

\* get_firm_availability as it would be if it wrote the default over a
\* document it found.
GetFirmAvailabilityResets(coll, firm_id, fault) ==
    IF fault THEN [value |-> None, coll |-> coll]
    ELSE IF find_one(coll, firm_id) = None
    THEN create_default_availability(coll, firm_id)
    ELSE [value |-> Some(FirmAvailabilityDoc(firm_id, "America/Los_Angeles",
                                             DefaultWeeklySchedule)),
          coll |-> [k \in 1..Len(coll) |->
                       IF coll[k].firm_id = firm_id
                       THEN FirmAvailabilityDoc(firm_id, "America/Los_Angeles",
                                                DefaultWeeklySchedule)
                       ELSE coll[k]]]

\* availability.services.get_firm_availability.  fault: the database read
\* raises; the except branch logs and returns None.
get_firm_availability(coll, firm_id, fault) ==
    IF fault THEN [value |-> None, coll |-> coll]
    ELSE IF find_one(coll, firm_id) # None
    THEN [value |-> find_one(coll, firm_id), coll |-> coll]
    ELSE create_default_availability(coll, firm_id)

\* update_firm_availability as it would be if it only inserted: an
\* existing document is left as it is.
UpdateOnlyInserts(coll, firm_id, timezone, weekly_schedule) ==
    IF find_one(coll, firm_id) # None THEN coll
    ELSE Append(coll, FirmAvailabilityDoc(firm_id, timezone, weekly_schedule))

\* update_one(..., upsert=True)
update_firm_availability(coll, firm_id, timezone, weekly_schedule) ==
    IF find_one(coll, firm_id) # None
    THEN update_one(coll, firm_id,
             [timezone |-> timezone, weekly_schedule |-> weekly_schedule])
    ELSE Append(coll, FirmAvailabilityDoc(firm_id, timezone, weekly_schedule))

\* DayIsValid as it would be if an end equal to the start were accepted.
DayIsValidAllowsEqual(day_schedule) ==
    IF ~day_schedule.enabled THEN TRUE
    ELSE IF ParseHM(day_schedule.start_time) = None
            \/ ParseHM(day_schedule.end_time) = None THEN FALSE
    ELSE LET st == ParseHM(day_schedule.start_time)[1]
             en == ParseHM(day_schedule.end_time)[1]
         IN /\ 0 <= st[1] /\ st[1] <= 23 /\ 0 <= st[2] /\ st[2] <= 59
            /\ 0 <= en[1] /\ en[1] <= 23 /\ 0 <= en[2] /\ en[2] <= 59
            /\ en[1] * MinutesPerHour + en[2] >= st[1] * MinutesPerHour + st[2]

\* The check of one day in the update_availability endpoint.
DayIsValid(day_schedule) ==
    IF ~day_schedule.enabled THEN TRUE
    ELSE IF ParseHM(day_schedule.start_time) = None
            \/ ParseHM(day_schedule.end_time) = None THEN FALSE
    ELSE LET st == ParseHM(day_schedule.start_time)[1]
             en == ParseHM(day_schedule.end_time)[1]
         IN /\ 0 <= st[1] /\ st[1] <= 23 /\ 0 <= st[2] /\ st[2] <= 59
            /\ 0 <= en[1] /\ en[1] <= 23 /\ 0 <= en[2] /\ en[2] <= 59
            /\ en[1] * MinutesPerHour + en[2] > st[1] * MinutesPerHour + st[2]

ScheduleIsValid(weekly_schedule) ==
    \A i \in 1..7 : DayIsValid(weekly_schedule[DayNames[i]])

\* get_blocked_dates: the firm's documents, sorted by start_date.  fault:
\* the read or the parsing of a document raises; the except branch logs
\* and returns the empty list.
RECURSIVE SortByStart(_)
SortByStart(docs) ==
    IF docs = <<>> THEN <<>>
    ELSE LET i == CHOOSE i \in 1..Len(docs) :
                     /\ \A j \in 1..Len(docs) :
                            ~(docs[j].start_date[2] < docs[i].start_date[2]
                              \/ (docs[j].start_date[2] = docs[i].start_date[2]
                                  /\ docs[j].start_date[3] < docs[i].start_date[3]))
                     /\ \A j \in 1..(i - 1) :
                            docs[j].start_date # docs[i].start_date
         IN <<docs[i]>> \o
            SortByStart(SubSeq(docs, 1, i - 1) \o SubSeq(docs, i + 1, Len(docs)))

get_blocked_dates(coll, firm_id, fault) ==
    IF fault THEN <<>>
    ELSE SortByStart(SelectSeq(coll, LAMBDA doc : doc.firm_id = firm_id))

\* Smallest id no document of the collection carries.
FreshId(coll) ==
    CHOOSE n \in 1..(Len(coll) + 1) : \A i \in 1..Len(coll) : coll[i].id # n

create_blocked_date(coll, firm_id, start_date, end_date) ==
    Append(coll, [id |-> FreshId(coll), firm_id |-> firm_id,
                  start_date |-> isoformat(start_date),
                  end_date |-> isoformat(end_date)])

\* delete_blocked_date as it would be if the filter left the firm out.
DeleteIgnoringFirm(coll, firm_id, blocked_date_id) ==
    SelectSeq(coll, LAMBDA doc : doc.id # blocked_date_id)

\* delete_one({"_id": id, "firm_id": firm_id})
delete_blocked_date(coll, firm_id, blocked_date_id) ==
    SelectSeq(coll, LAMBDA doc :
                  ~(doc.id = blocked_date_id /\ doc.firm_id = firm_id))

\* The document create_calendar_appointment inserts into db.appointments:
\* it carries case_id and scheduled_time, and neither firm_id nor
\* start_time.
AppointmentData(case_id, start_time, calendar_event_id) ==
    [case_id |-> case_id, scheduled_time |-> start_time,
     duration_minutes |-> MinutesPerHour,
     calendar_event_id |-> calendar_event_id]

\* availability.services.check_appointment_conflicts: the positions in
\* db.appointments of the documents matching
\* {"firm_id": firm_id, "start_time": {"$gte": ..., "$lte": ...}}, the range
\* running from the first minute of start_date to the last of end_date.  A
\* document without a field of the filter does not match.
check_appointment_conflicts(appts, firm_id, start_date, end_date) ==
    {k \in 1..Len(appts) :
        /\ "firm_id" \in DOMAIN appts[k]
        /\ appts[k]["firm_id"] = firm_id
        /\ "start_time" \in DOMAIN appts[k]
        /\ appts[k]["start_time"] >= start_date * MinutesPerDay
        /\ appts[k]["start_time"] <= (end_date + 1) * MinutesPerDay - 1}

\* --------------------------------------------------- availability resolver
Slot(start_time, end_time) == [start_time |-> start_time, end_time |-> end_time]

DateOf(instant) == instant \div MinutesPerDay

\* datetime.combine(check_date, time(hour, minute))
Combine(check_date, hour, minute) ==
    check_date * MinutesPerDay + hour * MinutesPerHour + minute

\* DateIsBlocked as it would be if only the first day of a range counted.
DateIsBlockedFirstDayOnly(blocked, check_date) ==
    \E i \in 1..Len(blocked) :
        fromisoformat(blocked[i].start_date) = check_date

\* The loop over blocked_dates inside the day loop.
DateIsBlocked(blocked, check_date) ==
    \E i \in 1..Len(blocked) :
        /\ fromisoformat(blocked[i].start_date) <= check_date
        /\ check_date <= fromisoformat(blocked[i].end_date)

\* SlotIsFree as it would be with closed intervals.
SlotIsFreeClosed(slot_start, slot_end, busy_times) ==
    ~\E b \in busy_times : slot_start <= b.end /\ slot_end >= b.start

\* The loop over busy_times for one candidate slot.
SlotIsFree(slot_start, slot_end, busy_times) ==
    ~\E b \in busy_times : slot_start < b.end /\ slot_end > b.start

\* HourSlots as it would be if a slot starting exactly now were kept.
RECURSIVE HourSlotsKeepNow(_, _, _, _, _, _, _, _)
HourSlotsKeepNow(check_date, current_hour, start_hour, start_min, end_hour, end_min, clock, busy_times) ==
    IF ~(current_hour < end_hour) THEN <<>>
    ELSE LET slot_start == Combine(check_date, current_hour,
                               IF current_hour = start_hour THEN start_min ELSE 0)
             slot_end == slot_start + MinutesPerHour
             business_end == Combine(check_date, end_hour, end_min)
             rest == HourSlotsKeepNow(check_date, current_hour + 1, start_hour,
                         start_min, end_hour, end_min, clock, busy_times)
         IN IF slot_end > business_end THEN <<>>
            ELSE IF slot_start < clock THEN rest
            ELSE IF SlotIsFree(slot_start, slot_end, busy_times)
            THEN <<Slot(slot_start, slot_end)>> \o rest
            ELSE rest

\* The while loop that generates the hourly slots of one day.
RECURSIVE HourSlots(_, _, _, _, _, _, _, _)
HourSlots(check_date, current_hour, start_hour, start_min, end_hour, end_min, clock, busy_times) ==
    IF ~(current_hour < end_hour) THEN <<>>
    ELSE LET slot_start == Combine(check_date, current_hour,
                               IF current_hour = start_hour THEN start_min ELSE 0)
             slot_end == slot_start + MinutesPerHour
             business_end == Combine(check_date, end_hour, end_min)
             rest == HourSlots(check_date, current_hour + 1, start_hour,
                               start_min, end_hour, end_min, clock, busy_times)
         IN IF slot_end > business_end THEN <<>>
            ELSE IF slot_start <= clock THEN rest
            ELSE IF SlotIsFree(slot_start, slot_end, busy_times)
            THEN <<Slot(slot_start, slot_end)>> \o rest
            ELSE rest

\* DaySlots as it would be if every day got the default business hours
\* whether or not the firm enabled it.
DaySlotsIgnoringEnabled(availability, blocked, busy_times, clock, check_date) ==
    IF DateIsBlocked(blocked, check_date) THEN <<>>
    ELSE HourSlots(check_date, DefaultStartHour, DefaultStartHour, 0,
                   DefaultEndHour, 0, clock, busy_times)

\* The body of the day loop for one check_date.
DaySlots(availability, blocked, busy_times, clock, check_date) ==
    IF DateIsBlocked(blocked, check_date) THEN <<>>
    ELSE IF availability # None
    THEN LET day_schedule ==
                 availability[1].weekly_schedule[WeekdayName(check_date)]
         IN IF ~day_schedule.enabled THEN <<>>
            ELSE IF ParseHM(day_schedule.start_time) = None
                    \/ ParseHM(day_schedule.end_time) = None
            THEN HourSlots(check_date, DefaultStartHour, DefaultStartHour, 0,
                           DefaultEndHour, 0, clock, busy_times)
            ELSE HourSlots(check_date,
                           ParseHM(day_schedule.start_time)[1][1],
                           ParseHM(day_schedule.start_time)[1][1],
                           ParseHM(day_schedule.start_time)[1][2],
                           ParseHM(day_schedule.end_time)[1][1],
                           ParseHM(day_schedule.end_time)[1][2],
                           clock, busy_times)
    ELSE IF Weekday(check_date) >= FirstWeekendDay THEN <<>>
    ELSE HourSlots(check_date, DefaultStartHour, DefaultStartHour, 0,
                   DefaultEndHour, 0, clock, busy_times)

\* AvailableSlots as it would be if the loop stopped after the first
\* week of the window.
RECURSIVE AvailableSlotsFirstWeekOnly(_, _, _, _, _, _)
AvailableSlotsFirstWeekOnly(availability, blocked, busy_times, clock, days, day_offset) ==
    IF day_offset >= days \/ day_offset >= Len(DayNames) THEN <<>>
    ELSE DaySlots(availability, blocked, busy_times, clock,
                  DateOf(clock) + day_offset)
         \o AvailableSlotsFirstWeekOnly(availability, blocked, busy_times,
                                        clock, days, day_offset + 1)

\* for day_offset in range(days)
RECURSIVE AvailableSlots(_, _, _, _, _, _)
AvailableSlots(availability, blocked, busy_times, clock, days, day_offset) ==
    IF day_offset >= days THEN <<>>
    ELSE DaySlots(availability, blocked, busy_times, clock,
                  DateOf(clock) + day_offset)
         \o AvailableSlots(availability, blocked, busy_times, clock, days,
                           day_offset + 1)

\* The free/busy query as it would be if a failed query counted as an
\* answer with no busy period.
FreeBusyQueryFailsOpen(freebusy, busy_times) ==
    [ok |-> TRUE, busy |-> IF freebusy = "ok" THEN busy_times ELSE {}]

\* service.freebusy().query(...).execute(): it raises, or answers with the
\* busy periods of the calendar.
FreeBusyQuery(freebusy, busy_times) ==
    [ok |-> freebusy = "ok", busy |-> IF freebusy = "ok" THEN busy_times ELSE {}]

\* What may go wrong in the store during one resolution: nothing, the read
\* of the schedule, or the read of the blocked dates.
StorageFaults == {"ok", "schedule", "blocked"}

\* get_calendar_availability.  outcome is what a token refresh would do,
\* freebusy what the free/busy query does, busy_times its answer, storage
\* what goes wrong in the store.
get_calendar_availability(calendars, availabilities, blocked_coll, firm_id, days, outcome, freebusy, busy_times, storage, clock) ==
    LET Run(connection, loaded, blocked, token) ==
          LET failed(msg) ==
                  [ok |-> FALSE, error |-> msg, slots |-> <<>>,
                   calendars |-> token.coll, availabilities |-> loaded.coll,
                   token |-> token, asked |-> TRUE]
              untouched ==
                  [ok |-> FALSE, error |-> "No calendar connection found",
                   slots |-> <<>>, calendars |-> calendars,
                   availabilities |-> availabilities, token |-> token,
                   asked |-> FALSE]
          IN IF connection = None THEN untouched
             ELSE IF connection[1].calendar_id = "" THEN untouched
             ELSE IF ~token.result.success
             THEN IF token.result.needs_reauth
                  THEN failed("Google Calendar authentication has expired")
                  ELSE failed("Calendar authentication error")
             ELSE IF ~FreeBusyQuery(freebusy, busy_times).ok
             THEN failed("freebusy query failed")
             ELSE [failed("") EXCEPT
                      !.ok = TRUE,
                      !.slots = AvailableSlots(loaded.value, blocked,
                                    FreeBusyQuery(freebusy, busy_times).busy,
                                    clock, days, 0)]
    IN CHOOSE r \in {Run(connection, loaded, blocked, token) :
                connection \in {find_one(calendars, firm_id)},
                loaded \in {get_firm_availability(availabilities, firm_id,
                                                  storage = "schedule")},
                blocked \in {get_blocked_dates(blocked_coll, firm_id,
                                               storage = "blocked")},
                token \in {get_valid_credentials(calendars, firm_id, outcome,
                                                 clock)}} : TRUE

\* db.firms: the firms that exist.
Firms == {ThisFirm, OtherFirm}

\* A well-formed firm id that no firm carries.
NoFirm == "f0"

\* The window the public endpoint asks for: it calls
\* get_calendar_availability(firm_id) and so takes the default of days.
PublicDays == MaxDays

\* public.services.get_firm_availability, given what
\* get_calendar_availability did: a failed resolution is logged and
\* answered with an empty list.
public_get_firm_availability(firm_exists, resolution) ==
    IF ~firm_exists THEN [status |-> 404, available_slots |-> <<>>]
    ELSE IF resolution.ok
    THEN [status |-> 200, available_slots |-> resolution.slots]
    ELSE [status |-> 200, available_slots |-> <<>>]

\* ------------------------------------------------------------ call records
NoCred ==
    [op |-> "none", firm |-> "f1", outcome |-> "ok", network |-> FALSE,
     before |-> <<>>,
     result |-> TokenRefreshResult(FALSE, None, "", FALSE)]

NoAvail ==
    [op |-> "none", firm |-> "f1", days |-> 0, freebusy |-> "ok",
     storage |-> "ok", busy |-> {},
     ok |-> FALSE, error |-> "", slots |-> <<>>]

\* The cases an appointment may be booked for, each with its firm and status.
CaseIds == {"case1"}

InitialCases == [c \in CaseIds |-> [firm_id |-> ThisFirm, status |-> "new_lead"]]

IdleCall ==
    [pc |-> "idle", firm |-> "f1", credentials |-> None, count |-> None,
     result |-> TokenRefreshResult(FALSE, None, "", FALSE)]

CallIds == 1..MaxCalls

\* No request has an answer waiting to be returned.
Idle == cred_last.op = "none" /\ avail_last.op = "none"

\* The handler returns its answer to the caller and the request ends.
Respond ==
    /\ ~Idle
    /\ cred_last' = NoCred
    /\ avail_last' = NoAvail
    /\ UNCHANGED <<now, connected_calendars, firm_availability, blocked_dates,
                   calls, appointments, cases>>

\* ----------------------------------------------------------------- steps
Tick(step) ==
    /\ Idle
    /\ TicksOf(now) < MaxTicks
    /\ now' = now + step
    /\ cred_last' = NoCred
    /\ avail_last' = NoAvail
    /\ UNCHANGED <<connected_calendars, firm_availability, blocked_dates,
                   calls, appointments, cases>>

\* OAuth callback: a consent ends and the tokens are stored.
StoreCalendarConnection(firm_id, refresh_token) ==
    /\ Idle
    /\ connected_calendars' =
          store_calendar_connection(connected_calendars, firm_id,
              Some(AccessToken(now + TokenLifetime)), refresh_token)
    /\ cred_last' =
          [op |-> "store_calendar_connection", firm |-> firm_id,
           outcome |-> "ok", network |-> FALSE,
           before |-> find_one(connected_calendars, firm_id),
           result |-> NoCred.result,
           access_token |-> Some(AccessToken(now + TokenLifetime)),
           refresh_token |-> refresh_token]
    /\ avail_last' = NoAvail
    /\ UNCHANGED <<now, firm_availability, blocked_dates, calls, appointments,
                   cases>>

\* One whole get_valid_credentials call, no other request in between.
GetValidCredentials(firm_id, outcome) ==
    /\ Idle
    /\ \E r \in {get_valid_credentials(connected_calendars, firm_id, outcome, now)} :
          /\ connected_calendars' = r.coll
          /\ cred_last' = [op |-> "get_valid_credentials", firm |-> firm_id,
                           outcome |-> outcome, network |-> r.network,
                           before |-> find_one(connected_calendars, firm_id),
                           result |-> r.result]
          /\ avail_last' = NoAvail
          /\ UNCHANGED <<now, firm_availability, blocked_dates, calls,
                         appointments, cases>>

\* One call of token_refresh_service.get_connection_health.
GetConnectionHealth(firm_id) ==
    /\ Idle
    /\ \E r \in {get_connection_health(connected_calendars, firm_id)} :
          /\ connected_calendars' = r.coll
          /\ cred_last' = [op |-> "get_connection_health", firm |-> firm_id,
                           outcome |-> "ok", network |-> r.network,
                           before |-> find_one(connected_calendars, firm_id),
                           result |-> r.report]
    /\ avail_last' = NoAvail
    /\ UNCHANGED <<now, firm_availability, blocked_dates, calls,
                   appointments, cases>>

\* GET /calendar/status: get_calendar_connection_status takes the health
\* report, and for a connected firm then asks get_valid_credentials for
\* the scopes, which refreshes when a refresh is due; the answer carries
\* the values of the report taken before that.
GetCalendarConnectionStatus(firm_id, outcome) ==
    /\ Idle
    /\ \E health \in {get_connection_health(connected_calendars, firm_id)} :
       \E token \in {get_valid_credentials(connected_calendars, firm_id,
                                            outcome, now)} :
          /\ connected_calendars' =
                IF health.report.connected THEN token.coll
                ELSE connected_calendars
          /\ cred_last' =
                [op |-> "get_calendar_connection_status", firm |-> firm_id,
                 outcome |-> outcome,
                 network |-> health.report.connected /\ token.network,
                 before |-> find_one(connected_calendars, firm_id),
                 result |->
                    IF health.report.connected
                    THEN [health.report EXCEPT !.has_refresh_token = FALSE]
                    ELSE [health.report EXCEPT !.status = "unknown",
                                               !.needs_reauth = FALSE]]
    /\ avail_last' = NoAvail
    /\ UNCHANGED <<now, firm_availability, blocked_dates, calls,
                   appointments, cases>>

\* ------------------------------------------------- availability requests
\* What a day of a submitted schedule may be.
DayChoices ==
    {TimeSlot(FALSE, "09:00", "17:00"), TimeSlot(TRUE, "09:00", "11:00"),
     TimeSlot(TRUE, "09:30", "12:00")}

TuesdayChoices ==
    {TimeSlot(FALSE, "09:00", "17:00"), TimeSlot(TRUE, "09:30", "12:00")}

BadDayChoices ==
    {TimeSlot(TRUE, "11:00", "09:00"), TimeSlot(TRUE, "09:00", "25:00"),
     TimeSlot(TRUE, "09:00", "noon")}

ScheduleChoices ==
    {[DefaultWeeklySchedule EXCEPT !.monday = a, !.tuesday = b] :
        a \in DayChoices, b \in TuesdayChoices}
    \cup {[DefaultWeeklySchedule EXCEPT !.monday = a] : a \in BadDayChoices}

\* Busy periods the calendar may report: today 09:30-10:30 and
\* 10:00-11:00, and tomorrow 09:30-10:30.
BusyPeriods(clock) ==
    {[start |-> Combine(DateOf(clock), DefaultStartHour, off),
      end |-> Combine(DateOf(clock), DefaultStartHour + 1, off)] :
        off \in {HalfHour, 2 * HalfHour}}
    \cup {[start |-> Combine(DateOf(clock) + 1, DefaultStartHour, HalfHour),
           end |-> Combine(DateOf(clock) + 1, DefaultStartHour + 1, HalfHour)]}

BusyChoices(clock) ==
    {b \in SUBSET BusyPeriods(clock) : Cardinality(b) <= MaxBusy}

BlockDays == 0..1

\* The windows asked for: the shortest and the longest.
DayWindows == {1, MaxDays}

\* get_us_timezones(): the values of US_TIMEZONES.
USTimezones ==
    {"America/Los_Angeles", "America/Denver", "America/Chicago",
     "America/New_York", "America/Phoenix", "America/Anchorage",
     "Pacific/Honolulu"}

\* The day the validation loop of update_availability stops at: the first
\* day, Monday first, that is enabled and fails a check.
FirstInvalidDay(weekly_schedule) ==
    DayNames[CHOOSE i \in 1..7 :
                /\ ~DayIsValid(weekly_schedule[DayNames[i]])
                /\ \A j \in 1..(i - 1) : DayIsValid(weekly_schedule[DayNames[j]])]

\* The answer of update_availability: 400 for a timezone that is not
\* listed, 400 naming the day for a bad day, else 200.
UpdateAnswer(timezone, weekly_schedule) ==
    IF timezone \notin USTimezones
    THEN [status |-> 400, detail |-> "Invalid timezone"]
    ELSE IF ~ScheduleIsValid(weekly_schedule)
    THEN [status |-> 400, detail |-> FirstInvalidDay(weekly_schedule)]
    ELSE [status |-> 200, detail |-> ""]

\* What a later request keeps of the request answered just before it.
Previous ==
    IF avail_last.op \in {"get_availability", "update_availability"}
    THEN [op |-> avail_last.op, status |-> avail_last.status,
          weekly_schedule |-> avail_last.weekly_schedule,
          before |-> avail_last.before]
    ELSE [op |-> "none", status |-> 0, weekly_schedule |-> None,
          before |-> None]

\* A schedule request may follow another schedule request directly.
ScheduleIdle ==
    /\ cred_last.op = "none"
    /\ avail_last.op \in {"none", "get_availability", "update_availability"}

\* PUT /availability: the endpoint validates, then update_firm_availability.
UpdateAvailability(firm_id, timezone, weekly_schedule) ==
    /\ Idle
    /\ firm_availability' =
          IF UpdateAnswer(timezone, weekly_schedule).status = 200
          THEN update_firm_availability(firm_availability, firm_id, timezone,
                                        weekly_schedule)
          ELSE firm_availability
    /\ cred_last' = NoCred
    /\ avail_last' =
          [op |-> "update_availability", firm |-> firm_id,
           status |-> UpdateAnswer(timezone, weekly_schedule).status,
           detail |-> UpdateAnswer(timezone, weekly_schedule).detail,
           timezone |-> timezone,
           weekly_schedule |-> Some(weekly_schedule),
           before |-> find_one(firm_availability, firm_id),
           previous |-> Previous]
    /\ UNCHANGED <<now, connected_calendars, blocked_dates, calls,
                   appointments, cases>>

\* GET /availability: get_firm_availability, 404 when it returns None.
GetAvailability(firm_id) ==
    /\ ScheduleIdle
    /\ \E r \in {get_firm_availability(firm_availability, firm_id, FALSE)} :
          /\ firm_availability' = r.coll
          /\ avail_last' =
                [op |-> "get_availability", firm |-> firm_id,
                 status |-> IF r.value = None THEN 404 ELSE 200,
                 detail |-> "",
                 timezone |-> IF r.value = None THEN "" ELSE r.value[1].timezone,
                 weekly_schedule |->
                     IF r.value = None THEN None
                     ELSE Some(r.value[1].weekly_schedule),
                 before |-> find_one(firm_availability, firm_id),
                 previous |-> Previous]
    /\ cred_last' = NoCred
    /\ UNCHANGED <<now, connected_calendars, blocked_dates, calls,
                   appointments, cases>>

\* POST /blocked-dates: rejected when end_date < start_date.  The service
\* returns the blocked date with the conflicts it found; the endpoint logs
\* the conflicts and answers with the blocked date alone.
CreateBlockedDate(firm_id, start_date, end_date) ==
    /\ Idle
    /\ CountFor(blocked_dates, firm_id) < MaxBlocked
    /\ blocked_dates' =
          IF end_date < start_date THEN blocked_dates
          ELSE create_blocked_date(blocked_dates, firm_id, start_date, end_date)
    /\ cred_last' = NoCred
    /\ avail_last' =
          [op |-> "create_blocked_date", firm |-> firm_id,
           status |-> IF end_date < start_date THEN 400 ELSE 200,
           start_date |-> start_date, end_date |-> end_date,
           conflicts |-> IF end_date < start_date THEN {}
                         ELSE check_appointment_conflicts(appointments,
                                  firm_id, start_date, end_date),
           warnings |-> {},
           before |-> blocked_dates]
    /\ UNCHANGED <<now, connected_calendars, firm_availability, calls,
                   appointments, cases>>

\* DELETE /blocked-dates/{id}: the service returns whether a document was
\* deleted (deleted_count > 0), and the endpoint answers 404 when none was.
DeleteBlockedDate(firm_id, blocked_date_id) ==
    /\ Idle
    /\ blocked_dates' =
          delete_blocked_date(blocked_dates, firm_id, blocked_date_id)
    /\ cred_last' = NoCred
    /\ avail_last' =
          [op |-> "delete_blocked_date", firm |-> firm_id,
           id |-> blocked_date_id,
           deleted |-> Len(blocked_dates') < Len(blocked_dates),
           status |-> IF Len(blocked_dates') < Len(blocked_dates)
                      THEN 200 ELSE 404,
           before |-> blocked_dates]
    /\ UNCHANGED <<now, connected_calendars, firm_availability, calls,
                   appointments, cases>>

\* One whole get_calendar_availability call.
GetCalendarAvailability(firm_id, days, outcome, freebusy, busy_times, storage) ==
    /\ Idle
    /\ \E r \in {get_calendar_availability(connected_calendars, firm_availability,
                 blocked_dates, firm_id, days, outcome, freebusy, busy_times,
                 storage,
                 now)} :
          /\ connected_calendars' = r.calendars
          /\ firm_availability' = r.availabilities
          /\ avail_last' = [op |-> "get_calendar_availability", firm |-> firm_id,
                            days |-> days, freebusy |-> freebusy,
                            storage |-> storage,
                            busy |-> busy_times, ok |-> r.ok, error |-> r.error,
                            slots |-> r.slots]
          /\ cred_last' =
                IF r.asked
                THEN [op |-> "get_valid_credentials", firm |-> firm_id,
                      outcome |-> outcome, network |-> r.token.network,
                      before |-> find_one(connected_calendars, firm_id),
                      result |-> r.token.result]
                ELSE NoCred
          /\ UNCHANGED <<now, blocked_dates, calls, appointments, cases>>

\* GET /public/availability/{firm_id}: one whole call of the public
\* get_firm_availability.
PublicGetFirmAvailability(firm_id, outcome, freebusy, busy_times, storage) ==
    /\ Idle
    /\ IF firm_id \notin Firms
       THEN /\ avail_last' =
                  [op |-> "public_get_firm_availability", firm |-> firm_id,
                   days |-> PublicDays, freebusy |-> freebusy,
                   storage |-> storage, busy |-> busy_times, ok |-> FALSE,
                   error |-> "Firm not found",
                   slots |-> public_get_firm_availability(FALSE,
                                 NoAvail).available_slots,
                   status |-> public_get_firm_availability(FALSE,
                                  NoAvail).status]
            /\ cred_last' = NoCred
            /\ UNCHANGED <<connected_calendars, firm_availability>>
       ELSE \E r \in {get_calendar_availability(connected_calendars,
                          firm_availability, blocked_dates, firm_id,
                          PublicDays, outcome, freebusy, busy_times, storage,
                          now)} :
              /\ connected_calendars' = r.calendars
              /\ firm_availability' = r.availabilities
              /\ avail_last' =
                    [op |-> "public_get_firm_availability", firm |-> firm_id,
                     days |-> PublicDays, freebusy |-> freebusy,
                     storage |-> storage, busy |-> busy_times, ok |-> r.ok,
                     error |-> r.error,
                     slots |-> public_get_firm_availability(TRUE,
                                   r).available_slots,
                     status |-> public_get_firm_availability(TRUE, r).status]
              /\ cred_last' =
                    IF r.asked
                    THEN [op |-> "get_valid_credentials", firm |-> firm_id,
                          outcome |-> outcome, network |-> r.token.network,
                          before |-> find_one(connected_calendars, firm_id),
                          result |-> r.token.result]
                    ELSE NoCred
    /\ UNCHANGED <<now, blocked_dates, calls, appointments, cases>>

\* A well-formed case id that no case carries.
NoCase == "case0"

\* RecordAppointment as it would be if the appointment were inserted and
\* the case updated before the event is sent to the calendar.
RecordBeforeEvent(appts, case_coll, case_id, start_time, error) ==
    IF error \in {"", "event insert failed"}
    THEN [appointments |->
              Append(appts, AppointmentData(case_id, start_time, Len(appts) + 1)),
          cases |-> [case_coll EXCEPT ![case_id].status = "meeting_scheduled"]]
    ELSE [appointments |-> appts, cases |-> case_coll]

\* The end of create_calendar_appointment: reached only when nothing
\* raised before it, it inserts the appointment with the id of the created
\* event and sets the case to meeting_scheduled.
RecordAppointment(appts, case_coll, case_id, start_time, error) ==
    IF error = ""
    THEN [appointments |->
              Append(appts, AppointmentData(case_id, start_time, Len(appts) + 1)),
          cases |-> [case_coll EXCEPT ![case_id].status = "meeting_scheduled"]]
    ELSE [appointments |-> appts, cases |-> case_coll]

\* What events().insert(...).execute() does.
EventOutcomes == {"ok", "error"}

\* POST /public/booking: one whole create_appointment_booking call, that
\* is create_calendar_appointment for the firm of the case.  The timeline
\* event written at the end is left out: its failure is caught and no
\* state kept here depends on it.
CreateAppointmentBooking(case_id, start_time, outcome, event) ==
    /\ Idle
    /\ Len(appointments) < MaxAppointments
    /\ IF case_id \notin DOMAIN cases
       THEN /\ avail_last' =
                  [op |-> "create_appointment_booking", firm |-> "",
                   case_id |-> case_id, start_time |-> start_time,
                   event |-> event, status |-> 404, ok |-> FALSE,
                   error |-> "Case not found", case_before |-> ""]
            /\ cred_last' = NoCred
            /\ UNCHANGED <<connected_calendars, firm_availability,
                           appointments, cases>>
       ELSE \E firm_id \in {cases[case_id].firm_id} :
            \E loaded \in {get_firm_availability(firm_availability, firm_id,
                                                  FALSE)} :
            \E connection \in {find_one(connected_calendars, firm_id)} :
            \E token \in {get_valid_credentials(connected_calendars, firm_id,
                                                 outcome, now)} :
            \E asked \in {connection # None /\ connection[1].calendar_id # ""} :
            \E error \in
                 {IF ~asked THEN "No calendar connection found"
                  ELSE IF ~token.result.success
                  THEN IF token.result.needs_reauth
                       THEN "Google Calendar authentication has expired"
                       ELSE "Calendar authentication error"
                  ELSE IF event # "ok" THEN "event insert failed"
                  ELSE ""} :
              /\ firm_availability' = loaded.coll
              /\ connected_calendars' =
                    IF asked THEN token.coll ELSE connected_calendars
              /\ appointments' =
                    RecordAppointment(appointments, cases, case_id,
                                      start_time, error).appointments
              /\ cases' =
                    RecordAppointment(appointments, cases, case_id,
                                      start_time, error).cases
              /\ avail_last' =
                    [op |-> "create_appointment_booking", firm |-> firm_id,
                     case_id |-> case_id, start_time |-> start_time,
                     event |-> event,
                     status |-> IF error = "" THEN 200 ELSE 500,
                     ok |-> error = "", error |-> error,
                     case_before |-> cases[case_id].status]
              /\ cred_last' =
                    IF asked
                    THEN [op |-> "get_valid_credentials", firm |-> firm_id,
                          outcome |-> outcome, network |-> token.network,
                          before |-> connection, result |-> token.result]
                    ELSE NoCred
    /\ UNCHANGED <<now, blocked_dates, calls>>

\* The firm has connected a calendar (the consent gave no refresh token);
\* another firm has closed its whole week and blocked these days.
Init ==
    /\ now = StartNow
    /\ connected_calendars =
          <<CalendarData(ThisFirm,
                Some(AccessToken(StartNow + TokenLifetime)), None)>>
    /\ firm_availability =
          <<FirmAvailabilityDoc(OtherFirm, "America/Chicago",
                [d \in DOMAIN DefaultWeeklySchedule |->
                    TimeSlot(FALSE, "09:00", "17:00")])>>
    /\ blocked_dates =
          <<[id |-> 1, firm_id |-> OtherFirm, start_date |-> isoformat(0),
             end_date |-> isoformat(2)]>>
    /\ appointments = <<>>
    /\ cases = InitialCases
    /\ calls = [c \in CallIds |-> IdleCall]
    /\ cred_last = NoCred
    /\ avail_last = NoAvail

Next ==
    \/ \E step \in TickSteps : Tick(step)
    \/ \E ws \in ScheduleChoices :
          UpdateAvailability(ThisFirm, "America/New_York", ws)
    \/ \E s \in BlockDays, e \in BlockDays : CreateBlockedDate(ThisFirm, s, e)
    \/ \E i \in 1..(MaxBlocked + 1) : DeleteBlockedDate(ThisFirm, i)
    \/ \E days \in DayWindows, busy_times \in BusyChoices(now) :
          GetCalendarAvailability(ThisFirm, days, "ok", "ok", busy_times, "ok")
    \/ \E days \in DayWindows :
          GetCalendarAvailability(ThisFirm, days, "ok", "error", {}, "ok")
    \/ Respond

Spec == Init /\ [][Next]_vars

\* The schedule store alone: the PUT and GET endpoints of /availability.
\* The schedules sent add a day whose end equals its start and a bad
\* Tuesday behind a good Monday; the timezones are one listed, one not.
ScheduleInputs ==
    ScheduleChoices
    \cup {[DefaultWeeklySchedule EXCEPT
              !.monday = TimeSlot(TRUE, "09:00", "09:00")],
          [DefaultWeeklySchedule EXCEPT
              !.tuesday = TimeSlot(TRUE, "12:00", "11:00")],
          [DefaultWeeklySchedule EXCEPT
              !.sunday = TimeSlot(FALSE, "17:00", "09:00")]}

TimezoneInputs == {"America/New_York", "Europe/Paris"}

InitSchedule ==
    /\ now = StartNow
    /\ connected_calendars = <<>>
    /\ firm_availability \in
          {<<>>, <<FirmAvailabilityDoc(OtherFirm, "America/Chicago",
                       [DefaultWeeklySchedule EXCEPT
                           !.monday = TimeSlot(FALSE, "09:00", "17:00")])>>}
    /\ blocked_dates = <<>>
    /\ appointments = <<>>
    /\ cases = InitialCases
    /\ calls = [c \in CallIds |-> IdleCall]
    /\ cred_last = NoCred
    /\ avail_last = NoAvail

NextSchedule ==
    \/ \E tz \in TimezoneInputs, ws \in ScheduleInputs :
          UpdateAvailability(ThisFirm, tz, ws)
    \/ GetAvailability(ThisFirm)
    \/ Respond

SpecSchedule == InitSchedule /\ [][NextSchedule]_vars

\* The public availability endpoint beside the calls that prepare its
\* cases: the firm starts with no connection and no schedule, storage reads
\* and the free/busy query may fail, and a refresh may be refused.
PublicSchedules ==
    {[DefaultWeeklySchedule EXCEPT !.monday = a] :
        a \in {TimeSlot(FALSE, "09:00", "17:00"),
                TimeSlot(TRUE, "09:30", "12:00")}}

FreeBusyOutcomes == {"ok", "error"}

\* What the token endpoint answers to a refresh here.
PublicOutcomes == {"ok", "invalid_grant"}

InitPublic ==
    /\ now = StartNow
    /\ connected_calendars = <<>>
    /\ firm_availability = <<>>
    /\ blocked_dates = <<>>
    /\ appointments = <<>>
    /\ cases = InitialCases
    /\ calls = [c \in CallIds |-> IdleCall]
    /\ cred_last = NoCred
    /\ avail_last = NoAvail

NextPublic ==
    \/ Tick(MinutesPerDay)
    \/ StoreCalendarConnection(ThisFirm, Some("rt"))
    \/ \E ws \in PublicSchedules :
          UpdateAvailability(ThisFirm, "America/New_York", ws)
    \/ CreateBlockedDate(ThisFirm, 0, 0)
    \/ GetAvailability(ThisFirm)
    \/ \E firm_id \in {ThisFirm, NoFirm}, outcome \in PublicOutcomes,
          freebusy \in FreeBusyOutcomes, storage \in StorageFaults :
          PublicGetFirmAvailability(firm_id, outcome, freebusy, {}, storage)
    \/ \E outcome \in PublicOutcomes, freebusy \in FreeBusyOutcomes,
          storage \in StorageFaults :
          GetCalendarAvailability(ThisFirm, PublicDays, outcome, freebusy, {},
                                  storage)
    \/ Respond

SpecPublic == InitPublic /\ [][NextPublic]_vars

\* A window that reaches into a second week: the firm changes Monday and
\* Tuesday, blocks Tuesday of the first or of the second week, and the
\* calendar reports busy periods in the first week.
WeekDays == Len(DayNames) + MaxDays

WeekBlockDays == {1, Len(DayNames) + 1}

NextWeeks ==
    \/ Tick(HalfHour)
    \/ \E ws \in ScheduleChoices :
          UpdateAvailability(ThisFirm, "America/New_York", ws)
    \/ \E s \in WeekBlockDays, e \in WeekBlockDays :
          CreateBlockedDate(ThisFirm, s, e)
    \/ \E busy_times \in BusyChoices(now) :
          GetCalendarAvailability(ThisFirm, WeekDays, "ok", "ok", busy_times,
                                  "ok")
    \/ Respond

SpecWeeks == Init /\ [][NextWeeks]_vars

\* Booking beside the blocked dates: clients book consultations for the
\* firm's case today and tomorrow at 10:00, the firm connects its calendar
\* and blocks and unblocks days.
BookingTimes ==
    {Combine(DateOf(StartNow) + d, DefaultStartHour + 1, 0) : d \in BlockDays}

NextBooking ==
    \/ StoreCalendarConnection(ThisFirm, Some("rt"))
    \/ \E case_id \in CaseIds \cup {NoCase}, start_time \in BookingTimes,
          event \in EventOutcomes :
          CreateAppointmentBooking(case_id, start_time, "ok", event)
    \/ \E s \in BlockDays, e \in BlockDays : CreateBlockedDate(ThisFirm, s, e)
    \/ \E i \in 1..(MaxBlocked + 1) : DeleteBlockedDate(ThisFirm, i)
    \/ Respond

SpecBooking == InitPublic /\ [][NextBooking]_vars

\* The blocked dates of two firms: each firm blocks days and deletes by
\* id, its own ids, the other firm's and ids no range carries.
BlockedIds == 1..(2 * MaxBlocked + 1)

NextBlocked ==
    \/ \E firm_id \in Firms, e \in BlockDays : CreateBlockedDate(firm_id, 1, e)
    \/ \E firm_id \in Firms, i \in BlockedIds :
          DeleteBlockedDate(firm_id, i)
    \/ Respond

SpecBlocked == Init /\ [][NextBlocked]_vars

\* Credential lifecycle, one request at a time.
InitCred ==
    /\ now = StartNow
    /\ connected_calendars \in
          {<<>>, <<CalendarData(OtherFirm,
                      Some(AccessToken(StartNow + TokenLifetime)), Some("rt"))>>}
    /\ firm_availability = <<>>
    /\ blocked_dates = <<>>
    /\ appointments = <<>>
    /\ cases = InitialCases
    /\ calls = [c \in CallIds |-> IdleCall]
    /\ cred_last = NoCred
    /\ avail_last = NoAvail

NextCred ==
    \/ \E step \in TickSteps : Tick(step)
    \/ \E rt \in RefreshTokens : StoreCalendarConnection(ThisFirm, rt)
    \/ \E o \in RefreshOutcomes : GetValidCredentials(ThisFirm, o)
    \/ GetConnectionHealth(ThisFirm)
    \/ \E o \in PublicOutcomes : GetCalendarConnectionStatus(ThisFirm, o)
    \/ Respond

SpecCred == InitCred /\ [][NextCred]_vars

\* -------------------------------- get_valid_credentials, step by step
\* Several requests run get_valid_credentials for the same firm; each
\* database call and the refresh call is one step.
SetCall(c, call) == [calls EXCEPT ![c] = call]

Step(name, firm_id) == [NoCred EXCEPT !.op = name, !.firm = firm_id]

\* find_one and the checks up to should_refresh_token.
Begin(c, firm_id) ==
    /\ calls[c].pc = "idle"
    /\ \E load \in {LoadCredentials(connected_calendars, firm_id, now)} :
          calls' = SetCall(c, [pc |-> IF load.next = "refresh" THEN "refresh"
                                      ELSE "done",
                               firm |-> firm_id,
                               credentials |-> load.credentials,
                               count |-> None,
                               result |-> load.result])
    /\ cred_last' = Step("find_one", firm_id)
    /\ UNCHANGED <<now, connected_calendars, firm_availability, blocked_dates,
                   avail_last, appointments, cases>>

\* refresh_credentials: the call to the token endpoint.
Refresh(c, outcome) ==
    /\ calls[c].pc = "refresh"
    /\ \E r \in {refresh_credentials(calls[c].credentials[1], outcome, now)} :
          calls' = SetCall(c, [calls[c] EXCEPT
                                 !.pc = IF r.success THEN "update"
                                        ELSE "mark_read",
                                 !.credentials = r.credentials,
                                 !.result = r])
    /\ cred_last' = Step("refresh_credentials", calls[c].firm)
    /\ UNCHANGED <<now, connected_calendars, firm_availability, blocked_dates,
                   avail_last, appointments, cases>>

\* update_connection_tokens after a successful refresh.
UpdateTokens(c) ==
    /\ calls[c].pc = "update"
    /\ connected_calendars' =
          update_connection_tokens(connected_calendars, calls[c].firm,
                                   calls[c].credentials[1])
    /\ calls' = SetCall(c, [calls[c] EXCEPT !.pc = "done"])
    /\ cred_last' = Step("update_connection_tokens", calls[c].firm)
    /\ UNCHANGED <<now, firm_availability, blocked_dates, avail_last,
                   appointments, cases>>

\* mark_connection_needs_reauth: its find_one.
MarkRead(c) ==
    /\ calls[c].pc = "mark_read"
    /\ \A n \in {NextErrorCount(connected_calendars, calls[c].firm)} :
          n = None \/ n[1] <= MaxErrors
    /\ calls' = SetCall(c, [calls[c] EXCEPT
                              !.pc = "mark_write",
                              !.count = NextErrorCount(connected_calendars,
                                                       calls[c].firm)])
    /\ cred_last' = Step("find_one", calls[c].firm)
    /\ UNCHANGED <<now, connected_calendars, firm_availability, blocked_dates,
                   avail_last, appointments, cases>>

\* mark_connection_needs_reauth: its update_one.
MarkNeedsReauth(c) ==
    /\ calls[c].pc = "mark_write"
    /\ connected_calendars' =
          MarkWrite(connected_calendars, calls[c].firm, calls[c].result.error,
                    calls[c].count)
    /\ calls' = SetCall(c, [calls[c] EXCEPT !.pc = "done"])
    /\ cred_last' = Step("mark_connection_needs_reauth", calls[c].firm)
    /\ UNCHANGED <<now, firm_availability, blocked_dates, avail_last,
                   appointments, cases>>

\* The call returns its TokenRefreshResult; the request ends.
Return(c) ==
    /\ calls[c].pc = "done"
    /\ calls' = SetCall(c, IdleCall)
    /\ cred_last' = [Step("get_valid_credentials", calls[c].firm) EXCEPT
                        !.result = calls[c].result]
    /\ UNCHANGED <<now, connected_calendars, firm_availability, blocked_dates,
                   avail_last, appointments, cases>>

\* A consent ends while calls are in flight.
Reconnect(firm_id, refresh_token) ==
    /\ connected_calendars' =
          store_calendar_connection(connected_calendars, firm_id,
              Some(AccessToken(now + TokenLifetime)), refresh_token)
    /\ cred_last' = Step("store_calendar_connection", firm_id)
    /\ UNCHANGED <<now, firm_availability, blocked_dates, calls, avail_last,
                   appointments, cases>>

InitRace == InitCred

\* The answers of the token endpoint the interleavings are run with.
RaceOutcomes == {"ok", "invalid_grant"}

NextRace ==
    \/ \E rt \in RefreshTokens : Reconnect(ThisFirm, rt)
    \/ \E c \in CallIds : Begin(c, ThisFirm)
    \/ \E c \in CallIds, o \in RaceOutcomes : Refresh(c, o)
    \/ \E c \in CallIds : UpdateTokens(c)
    \/ \E c \in CallIds : MarkRead(c)
    \/ \E c \in CallIds : MarkNeedsReauth(c)
    \/ \E c \in CallIds : Return(c)

SpecRace == InitRace /\ [][NextRace]_vars

\* ------------------- first reads and reconnects, step by step
\* The endpoints are plain functions, which the server runs on a pool of
\* threads: between the find_one of a request and its write another
\* request may run.  Each call is at its find_one, at its write, or done.
\* get_firm_availability: the find_one.
ScheduleFind(c, firm_id) ==
    /\ calls[c].pc = "idle"
    /\ calls' = SetCall(c, [IdleCall EXCEPT
                              !.pc = IF find_one(firm_availability, firm_id) = None
                                     THEN "insert_default" ELSE "finished",
                              !.firm = firm_id])
    /\ cred_last' = NoCred
    /\ avail_last' = [NoAvail EXCEPT !.op = "find_one", !.firm = firm_id]
    /\ UNCHANGED <<now, connected_calendars, firm_availability, blocked_dates,
                   appointments, cases>>

\* create_default_availability: the insert_one.
ScheduleInsert(c) ==
    /\ calls[c].pc = "insert_default"
    /\ firm_availability' =
          create_default_availability(firm_availability, calls[c].firm).coll
    /\ calls' = SetCall(c, [calls[c] EXCEPT !.pc = "finished"])
    /\ cred_last' = NoCred
    /\ avail_last' = [NoAvail EXCEPT !.op = "insert_one",
                                     !.firm = calls[c].firm]
    /\ UNCHANGED <<now, connected_calendars, blocked_dates, appointments,
                   cases>>

\* store_calendar_connection: the find_one for an existing connection.
\* The call keeps the refresh token it was given in credentials.
StoreFind(c, firm_id, refresh_token) ==
    /\ calls[c].pc = "idle"
    /\ calls' = SetCall(c, [IdleCall EXCEPT
                              !.pc = IF find_one(connected_calendars, firm_id) = None
                                     THEN "store_insert" ELSE "store_update",
                              !.firm = firm_id,
                              !.credentials = refresh_token])
    /\ cred_last' = Step("find_one", firm_id)
    /\ avail_last' = NoAvail
    /\ UNCHANGED <<now, connected_calendars, firm_availability, blocked_dates,
                   appointments, cases>>

\* store_calendar_connection: update_one when a connection was found,
\* insert_one when none was.
StoreWrite(c) ==
    /\ calls[c].pc \in {"store_insert", "store_update"}
    /\ \E calendar_data \in
            {CalendarData(calls[c].firm, Some(AccessToken(now + TokenLifetime)),
                          calls[c].credentials)} :
          connected_calendars' =
              IF calls[c].pc = "store_update"
              THEN update_one(connected_calendars, calls[c].firm, calendar_data)
              ELSE Append(connected_calendars, calendar_data)
    /\ calls' = SetCall(c, [calls[c] EXCEPT !.pc = "finished"])
    /\ cred_last' = Step("store_calendar_connection", calls[c].firm)
    /\ avail_last' = NoAvail
    /\ UNCHANGED <<now, firm_availability, blocked_dates, appointments, cases>>

\* The request is answered.
Finish(c) ==
    /\ calls[c].pc = "finished"
    /\ calls' = SetCall(c, IdleCall)
    /\ cred_last' = NoCred
    /\ avail_last' = NoAvail
    /\ UNCHANGED <<now, connected_calendars, firm_availability, blocked_dates,
                   appointments, cases>>

NextInterleaved ==
    \/ \E c \in CallIds : ScheduleFind(c, ThisFirm)
    \/ \E c \in CallIds : ScheduleInsert(c)
    \/ \E c \in CallIds, rt \in RefreshTokens : StoreFind(c, ThisFirm, rt)
    \/ \E c \in CallIds : StoreWrite(c)
    \/ \E c \in CallIds : Finish(c)

SpecInterleaved == InitCred /\ [][NextInterleaved]_vars

\* ===================================================================
\* Properties of get_calendar_availability (specification Spec)
\* ===================================================================
\* The last request was a get_calendar_availability that returned slots.
Resolved ==
    /\ avail_last.op = "get_calendar_availability"
    /\ avail_last.ok

ReturnedSlots == {avail_last.slots[i] : i \in 1..Len(avail_last.slots)}

\* The schedule the firm has stored (after a call it always has one).
StoredSchedule == find_one(firm_availability, ThisFirm)[1].weekly_schedule

StoredBlocked ==
    {blocked_dates[i] : i \in {j \in 1..Len(blocked_dates) :
                                  blocked_dates[j].firm_id = ThisFirm}}

\* Order of two ISO dates, as strings compare.
IsoLE(a, b) ==
    \/ a[1] < b[1]
    \/ a[1] = b[1] /\ a[2] < b[2]
    \/ a[1] = b[1] /\ a[2] = b[2] /\ a[3] <= b[3]

Covers(doc, d) ==
    IsoLE(doc.start_date, isoformat(d)) /\ IsoLE(isoformat(d), doc.end_date)

Overlaps(slot, b) == slot.start_time < b.end /\ slot.end_time > b.start

\* C1: no returned slot starts on a weekday whose DaySlot is disabled,
\* whatever busy periods the calendar reported.
C1_NoSlotOnDisabledWeekday ==
    Resolved =>
        \A schedule \in {StoredSchedule} :
            \A slot \in ReturnedSlots :
                schedule[WeekdayName(DateOf(slot.start_time))].enabled

\* C1 witness: Monday is disabled, the window is Monday and Tuesday, the
\* calendar reported a busy period, and Tuesday slots were returned.
C1_Witness ==
    /\ Resolved
    /\ DateOf(now) = 0
    /\ avail_last.days = 2
    /\ avail_last.busy # {}
    /\ ~StoredSchedule["monday"].enabled
    /\ StoredBlocked = {}
    /\ avail_last.slots # <<>>

\* C2: no returned slot starts on a day covered by a stored blocked range
\* of the firm, even when the day's weekday is enabled.
C2_NoSlotOnBlockedDay ==
    Resolved =>
        \A blocked \in {StoredBlocked} :
            \A slot \in ReturnedSlots, doc \in blocked :
                ~Covers(doc, DateOf(slot.start_time))

\* C2 witness: two overlapping blocked ranges cover today, today's weekday
\* is enabled and its hours are still ahead, and the next day has slots.
C2_Witness ==
    /\ Resolved
    /\ \E a \in StoredBlocked, b \in StoredBlocked :
          /\ a # b
          /\ Covers(a, DateOf(now))
          /\ Covers(b, DateOf(now))
    /\ StoredSchedule[WeekdayName(DateOf(now))].enabled
    /\ now < Combine(DateOf(now), DefaultStartHour, 0)
    /\ avail_last.slots # <<>>

\* The candidates of the last call: what it returns when nothing is busy.
Candidates ==
    AvailableSlots(find_one(firm_availability, ThisFirm),
                   get_blocked_dates(blocked_dates, ThisFirm, FALSE), {}, now,
                   avail_last.days, 0)

\* C3: the returned slots are exactly the candidates that overlap no busy
\* period, overlap being slot.start < b.end and slot.end > b.start; a slot
\* that only touches a busy period at an endpoint is returned.
C3_DroppedIffOverlapsBusy ==
    Resolved =>
        /\ \A slot \in ReturnedSlots, b \in avail_last.busy : ~Overlaps(slot, b)
        /\ avail_last.slots =
              SelectSeq(Candidates,
                  LAMBDA slot : \A b \in avail_last.busy : ~Overlaps(slot, b))

\* C3 witness: Monday 09:00-17:00, busy 10:00-11:00 on that Monday; the
\* 10:00 slot is gone and the 09:00 and 11:00 slots are returned.
C3_Witness ==
    /\ Resolved
    /\ DateOf(now) = 0
    /\ avail_last.busy = {[start |-> Combine(0, 10, 0), end |-> Combine(0, 11, 0)]}
    /\ Slot(Combine(0, 9, 0), Combine(0, 10, 0)) \in ReturnedSlots
    /\ Slot(Combine(0, 11, 0), Combine(0, 12, 0)) \in ReturnedSlots
    /\ Slot(Combine(0, 10, 0), Combine(0, 11, 0)) \notin ReturnedSlots
    /\ Slot(Combine(0, 10, 0), Combine(0, 11, 0)) \in
          {Candidates[i] : i \in 1..Len(Candidates)}

\* C4: every returned slot starts strictly after the current instant.
C4_SlotsStartAfterNow ==
    Resolved => \A slot \in ReturnedSlots : slot.start_time > now

\* C4 witness: it is Monday 09:00, Monday is open from 09:00, nothing is
\* busy or blocked; the 09:00 slot is not returned and the 10:00 slot is.
C4_Witness ==
    /\ Resolved
    /\ now = Combine(0, 9, 0)
    /\ StoredSchedule["monday"] = TimeSlot(TRUE, "09:00", "17:00")
    /\ avail_last.busy = {}
    /\ StoredBlocked = {}
    /\ Slot(Combine(0, 9, 0), Combine(0, 10, 0)) \notin ReturnedSlots
    /\ Slot(Combine(0, 10, 0), Combine(0, 11, 0)) \in ReturnedSlots

\* C27: the slots a successful call returns for one day begin a whole
\* number of hours after one another (09:30, 10:30, ... for a day that
\* starts at 09:30), and no two of them overlap.
C27_SlotsAlignedToDayStart ==
    Resolved =>
        \A a \in ReturnedSlots, b \in ReturnedSlots :
            (a # b /\ DateOf(a.start_time) = DateOf(b.start_time)) =>
                /\ a.start_time % MinutesPerHour = b.start_time % MinutesPerHour
                /\ ~(a.start_time < b.end_time /\ b.start_time < a.end_time)

\* Minutes a firm's wall clock is ahead of UTC in June 2025 (negative:
\* behind), and the UTC instant of a wall-clock time in that timezone.
UtcOffset(timezone) ==
    CASE timezone = "America/New_York" -> -4 * MinutesPerHour
      [] timezone = "America/Chicago" -> -5 * MinutesPerHour
      [] timezone = "America/Denver" -> -6 * MinutesPerHour
      [] OTHER -> -7 * MinutesPerHour

LocalToUtc(wall_clock, timezone) == wall_clock - UtcOffset(timezone)

\* C28: for a firm with a stored timezone, a candidate slot is returned
\* exactly when no busy period, which the calendar reports in UTC,
\* overlaps the instant of the slot's wall-clock time in the firm's
\* timezone.
C28_BusyComparedInFirmTimezone ==
    (Resolved /\ find_one(firm_availability, ThisFirm) # None) =>
        \A tz \in {find_one(firm_availability, ThisFirm)[1].timezone} :
        \A i \in 1..Len(Candidates) :
            Candidates[i] \in ReturnedSlots
              <=> ~\E b \in avail_last.busy :
                      /\ LocalToUtc(Candidates[i].start_time, tz) < b.end
                      /\ LocalToUtc(Candidates[i].end_time, tz) > b.start

\* C11: when the free/busy query fails the call fails as a whole: it
\* returns no slot list, whatever the schedule alone would have given.
C11_FailedBusyQueryFails ==
    (avail_last.op = "get_calendar_availability"
     /\ avail_last.freebusy = "error") =>
        /\ ~avail_last.ok
        /\ avail_last.slots = <<>>
        /\ avail_last.error # ""

\* C11 witness: the call reached the free/busy query, the query failed,
\* and the schedule alone leaves candidate slots in the window.
C11_Witness ==
    /\ avail_last.op = "get_calendar_availability"
    /\ avail_last.freebusy = "error"
    /\ avail_last.error = "freebusy query failed"
    /\ ~avail_last.ok
    /\ Candidates # <<>>

\* ===================================================================
\* Properties of the schedule store (specification SpecSchedule)
\* ===================================================================
\* The documents the firm has in firm_availability.
ScheduleCount == CountFor(firm_availability, ThisFirm)

\* C14: a GET /availability answered directly after another one returns
\* the same weekly schedule, and the store then holds exactly one schedule
\* document of the firm.
C14_GetScheduleIdempotent ==
    (avail_last.op = "get_availability"
     /\ avail_last.previous.op = "get_availability") =>
        /\ avail_last.status = 200
        /\ avail_last.previous.status = 200
        /\ avail_last.weekly_schedule # None
        /\ avail_last.weekly_schedule = avail_last.previous.weekly_schedule
        /\ ScheduleCount = 1

\* C14 witness: the first of the two calls found no document and created
\* the default; the second found it.
C14_Witness ==
    /\ avail_last.op = "get_availability"
    /\ avail_last.previous.op = "get_availability"
    /\ avail_last.previous.before = None
    /\ avail_last.before # None
    /\ avail_last.weekly_schedule = Some(DefaultWeeklySchedule)

ClockMinutes(s) ==
    IF ParseHM(s) = None THEN None
    ELSE IF ParseHM(s)[1][1] \in 0..23 /\ ParseHM(s)[1][2] \in 0..59
    THEN Some(ParseHM(s)[1][1] * MinutesPerHour + ParseHM(s)[1][2])
    ELSE None

\* An enabled day whose times are not both well formed with start < end.
Offending(day_schedule) ==
    /\ day_schedule.enabled
    /\ \/ ClockMinutes(day_schedule.start_time) = None
       \/ ClockMinutes(day_schedule.end_time) = None
       \/ ClockMinutes(day_schedule.start_time)[1]
             >= ClockMinutes(day_schedule.end_time)[1]

CredentialErrors ==
    {"No calendar connection found",
     "Google Calendar authentication has expired",
     "Calendar authentication error"}

\* The answer of the public endpoint recorded last.
PublicAnswered ==
    /\ avail_last.op = "public_get_firm_availability"
    /\ avail_last.firm = ThisFirm

\* C12: when the resolution behind GET /public/availability fails for
\* want of a connection or of valid credentials, the answer the caller
\* gets is not the answer of a resolution that found no slot (200 with an
\* empty list).
C12_CredentialErrorReachesCaller ==
    (PublicAnswered /\ ~avail_last.ok
     /\ avail_last.error \in CredentialErrors) =>
        <<avail_last.status, avail_last.slots>> # <<200, <<>>>>

\* C13: a get_calendar_availability call during which the read of the
\* schedule or of the blocked dates failed in the store fails and returns
\* no slot.
C13_StorageFaultFails ==
    (avail_last.op = "get_calendar_availability"
     /\ avail_last.storage # "ok") =>
        /\ ~avail_last.ok
        /\ avail_last.slots = <<>>

\* C17: after GET /public/availability for an existing firm, with the
\* store working, the firm has a schedule document, connection or not.
C17_PublicCallCreatesDefault ==
    (PublicAnswered /\ avail_last.status = 200
     /\ avail_last.storage = "ok") =>
        find_one(firm_availability, ThisFirm) # None

\* The requests that resolve availability.
ResolveOps ==
    {"public_get_firm_availability", "get_calendar_availability",
     "get_availability"}

\* C18: a step that answers a resolving request (the public endpoint,
\* get_calendar_availability, GET /availability) for a firm that has a
\* stored schedule leaves the firm_availability collection as it was,
\* whether the resolution succeeded or failed.
C18_ResolvingKeepsStoredSchedule ==
    [][(/\ avail_last'.op \in ResolveOps
        /\ find_one(firm_availability, avail_last'.firm) # None)
       => firm_availability' = firm_availability]_vars

\* C18 witness: the public endpoint answered for a failed resolution while
\* the firm has the schedule it stored itself, Monday differing from the
\* default.
C18_Witness ==
    /\ PublicAnswered
    /\ ~avail_last.ok
    /\ avail_last.storage = "ok"
    /\ find_one(firm_availability, ThisFirm) # None
    /\ find_one(firm_availability, ThisFirm)[1].timezone = "America/New_York"
    /\ find_one(firm_availability, ThisFirm)[1].weekly_schedule.monday
          # DefaultWeeklySchedule.monday

\* ===================================================================
\* Weekly repetition (specification SpecWeeks)
\* ===================================================================
\* The times of day at which the last call returned a slot on a date.
TimesOn(date) ==
    {avail_last.slots[k].start_time % MinutesPerDay :
        k \in {j \in 1..Len(avail_last.slots) :
                  DateOf(avail_last.slots[j].start_time) = date}}

\* The date is inside a blocked range of the firm, or a reported busy
\* period touches it.
BlockedOrBusy(date) ==
    \/ \E k \in 1..Len(blocked_dates) :
          blocked_dates[k].firm_id = ThisFirm /\ Covers(blocked_dates[k], date)
    \/ \E b \in avail_last.busy :
          b.start < (date + 1) * MinutesPerDay /\ b.end > date * MinutesPerDay

\* C19: in the answer of a successful get_calendar_availability, for two
\* dates of the window a week apart, neither blocked nor touched by a busy
\* period, the earlier date has a slot at exactly the times of day at
\* which the later one has a slot, those not after the clock excepted.
C19_SecondWeekRepeatsFirst ==
    (avail_last.op = "get_calendar_availability" /\ avail_last.ok) =>
        \A d \in 0..(avail_last.days - Len(DayNames) - 1) :
            \A a \in {DateOf(now) + d} :
                (~BlockedOrBusy(a) /\ ~BlockedOrBusy(a + Len(DayNames))) =>
                    TimesOn(a) =
                        {t \in TimesOn(a + Len(DayNames)) :
                            a * MinutesPerDay + t > now}

\* C19 witness: with a Monday the firm set itself, both Mondays of the
\* window have the same slots, the first Tuesday is blocked and the second
\* has slots.
C19_Witness ==
    /\ avail_last.op = "get_calendar_availability"
    /\ avail_last.ok
    /\ avail_last.days = WeekDays
    /\ find_one(firm_availability, ThisFirm) # None
    /\ find_one(firm_availability, ThisFirm)[1].weekly_schedule.monday
          = TimeSlot(TRUE, "09:30", "12:00")
    /\ TimesOn(DateOf(now)) # {}
    /\ TimesOn(DateOf(now)) = TimesOn(DateOf(now) + Len(DayNames))
    /\ TimesOn(DateOf(now) + 1) = {}
    /\ TimesOn(DateOf(now) + Len(DayNames) + 1) # {}

\* ===================================================================
\* Blocked dates and appointments (specification SpecBooking)
\* ===================================================================
\* The positions in db.appointments of the firm's appointments, the firm
\* being that of the appointment's case, scheduled from the first minute
\* of day s to the last of day e.
AppointmentsWithin(firm_id, s, e) ==
    {k \in 1..Len(appointments) :
        /\ cases[appointments[k].case_id].firm_id = firm_id
        /\ appointments[k].scheduled_time >= s * MinutesPerDay
        /\ appointments[k].scheduled_time < (e + 1) * MinutesPerDay}

\* C20: an accepted POST /blocked-dates for [s, e] creates the range, and
\* the conflicts create_blocked_date returns are exactly the firm's booked
\* appointments scheduled inside [s, e].
C20_ConflictsAreAppointmentsInRange ==
    (avail_last.op = "create_blocked_date" /\ avail_last.status = 200) =>
        /\ Len(blocked_dates) = Len(avail_last.before) + 1
        /\ avail_last.conflicts =
              AppointmentsWithin(avail_last.firm, avail_last.start_date,
                                 avail_last.end_date)

\* ===================================================================
\* Deleting blocked dates (specification SpecBlocked)
\* ===================================================================
\* The positions, in the collection as it was before the last delete, of
\* the ranges with the id asked for that belong to the asking firm.
OwnTargets ==
    {k \in 1..Len(avail_last.before) :
        /\ avail_last.before[k].id = avail_last.id
        /\ avail_last.before[k].firm_id = avail_last.firm}

\* C21: a delete asked with the id of a range of the asking firm removes
\* that one range and nothing else; asked with the id of another firm's
\* range or of no range it returns false and leaves every range as it was.
C21_DeleteScopedByFirm ==
    avail_last.op = "delete_blocked_date" =>
        IF OwnTargets = {}
        THEN /\ ~avail_last.deleted
             /\ avail_last.status = 404
             /\ blocked_dates = avail_last.before
        ELSE /\ avail_last.deleted
             /\ Cardinality(OwnTargets) = 1
             /\ Len(blocked_dates) = Len(avail_last.before) - 1
             /\ \A k \in 1..Len(avail_last.before) :
                   k \notin OwnTargets =>
                      \E j \in 1..Len(blocked_dates) :
                          blocked_dates[j] = avail_last.before[k]
             /\ \A j \in 1..Len(blocked_dates) :
                   blocked_dates[j].id # avail_last.id

\* C21 witness: the firm, having a range of its own, asked for the delete
\* of a range of the other firm and was refused.
C21_Witness ==
    /\ avail_last.op = "delete_blocked_date"
    /\ avail_last.firm = ThisFirm
    /\ ~avail_last.deleted
    /\ CountFor(blocked_dates, ThisFirm) > 0
    /\ \E k \in 1..Len(blocked_dates) :
          /\ blocked_dates[k].id = avail_last.id
          /\ blocked_dates[k].firm_id = OtherFirm

\* C30: no two appointments booked for cases of one firm cover overlapping
\* one-hour intervals.
C30_NoDoubleBooking ==
    \A i \in 1..Len(appointments), j \in 1..Len(appointments) :
        (i # j /\ cases[appointments[i].case_id].firm_id
                    = cases[appointments[j].case_id].firm_id) =>
            ~(/\ appointments[i].scheduled_time
                    < appointments[j].scheduled_time
                        + appointments[j].duration_minutes
              /\ appointments[j].scheduled_time
                    < appointments[i].scheduled_time
                        + appointments[i].duration_minutes)

\* C22: a booking during which the creation of the calendar event failed
\* is answered as failed and leaves db.appointments and the cases as they
\* were; db.appointments changes only in a booking whose event was
\* created, and then by one appended appointment.
C22_FailedEventLeavesNoAppointment ==
    [][/\ (/\ avail_last'.op = "create_appointment_booking"
            /\ avail_last'.event = "error") =>
               /\ ~avail_last'.ok
               /\ avail_last'.status # 200
               /\ appointments' = appointments
               /\ cases' = cases
       /\ appointments' # appointments =>
               /\ avail_last'.op = "create_appointment_booking"
               /\ avail_last'.event = "ok"
               /\ avail_last'.ok
               /\ Len(appointments') = Len(appointments) + 1
               /\ SubSeq(appointments', 1, Len(appointments)) = appointments
               /\ appointments'[Len(appointments')].case_id
                     = avail_last'.case_id]_vars

\* C22 witness: with a connection and valid credentials the event could
\* not be created; the case is still a new lead and has no appointment.
C22_Witness ==
    /\ avail_last.op = "create_appointment_booking"
    /\ avail_last.event = "error"
    /\ avail_last.error = "event insert failed"
    /\ cred_last.op = "get_valid_credentials"
    /\ cred_last.result.success
    /\ appointments = <<>>
    /\ cases[avail_last.case_id].status = "new_lead"

\* ===================================================================
\* Properties of get_valid_credentials (specifications SpecCred, SpecRace)
\* ===================================================================
\* The last request was a whole get_valid_credentials call for the firm.
Called == cred_last.op = "get_valid_credentials"

\* The firm's connection document now, and before the last request.
Stored == find_one(connected_calendars, ThisFirm)

Before == cred_last.before

\* C5: on a connection whose token_status is needs_reauth the call fails
\* with the re-authentication error, calls no refresh and leaves the stored
\* document as it was.
C5_NeedsReauthFailsFast ==
    (Called /\ Before # None /\ Before[1].token_status = "needs_reauth") =>
        /\ ~cred_last.result.success
        /\ cred_last.result.credentials = None
        /\ cred_last.result.needs_reauth
        /\ cred_last.result.error = "Connection needs re-authentication"
        /\ ~cred_last.network
        /\ Stored = Before

\* C5 witness: the connection needs re-authentication, it holds a refresh
\* token and the token endpoint would have answered.
C5_Witness ==
    /\ Called
    /\ Before # None
    /\ Before[1].token_status = "needs_reauth"
    /\ Before[1].refresh_token # None
    /\ cred_last.outcome = "ok"
    /\ ~cred_last.result.success

\* C7: when the refresh a call attempts fails, whatever the failure, the
\* call returns no credentials and the stored connection ends with
\* token_status needs_reauth, the error count one higher and the error kept.
C7_FailedRefreshMarksNeedsReauth ==
    (Called /\ cred_last.network /\ cred_last.outcome # "ok") =>
        /\ ~cred_last.result.success
        /\ cred_last.result.credentials = None
        /\ Stored # None
        /\ Stored[1].token_status = "needs_reauth"
        /\ Stored[1].refresh_error_count = Before[1].refresh_error_count + 1
        /\ Stored[1].last_refresh_error = Some(cred_last.result.error)
        /\ cred_last.result.error # ""

\* C7 witness: an active connection, a refresh that raised an exception
\* other than RefreshError, and the document now marked needs_reauth.
C7_Witness ==
    /\ Called
    /\ cred_last.network
    /\ cred_last.outcome = "exception"
    /\ Before[1].token_status = "active"
    /\ Stored[1].token_status = "needs_reauth"

\* C8 (as claimed): on an active connection with no refresh token and an
\* access token that has expired, the call fails and the connection moves
\* to needs_reauth.
C8_ExpiredTokenWithoutRefreshFails ==
    (/\ Called
     /\ Before # None
     /\ Before[1].token_status = "active"
     /\ Before[1].refresh_token = None
     /\ TokenExpired(Before[1], now)) =>
        /\ ~cred_last.result.success
        /\ Stored[1].token_status = "needs_reauth"

\* C9: on an active connection with no refresh token and an access token
\* that has not expired, the call succeeds with the stored access token,
\* calls no refresh and leaves the stored document as it was.
C9_ValidTokenWithoutRefreshSucceeds ==
    (/\ Called
     /\ Before # None
     /\ Before[1].token_status = "active"
     /\ Before[1].refresh_token = None
     /\ ~TokenExpired(Before[1], now)) =>
        /\ cred_last.result.success
        /\ cred_last.result.credentials # None
        /\ cred_last.result.credentials[1].token = Before[1].access_token
        /\ ~cred_last.network
        /\ Stored = Before

\* C9 witness: such a call, made before the access token expires.
C9_Witness ==
    /\ Called
    /\ Before # None
    /\ Before[1].token_status = "active"
    /\ Before[1].refresh_token = None
    /\ ~TokenExpired(Before[1], now)
    /\ cred_last.result.success

\* What the call answers for a connection that needs re-authentication.
NeedsReauthResult ==
    LoadCredentials(
        <<[CalendarData(ThisFirm, Some(AccessToken(now)), Some("rt"))
              EXCEPT !.token_status = "needs_reauth"]>>,
        ThisFirm, now).result

\* C10: for a firm with no connection document the call fails with the
\* no-connection error, which differs from the answer for needs_reauth,
\* calls no refresh and creates no document.
C10_NotConnectedFails ==
    (Called /\ Before = None) =>
        /\ ~cred_last.result.success
        /\ cred_last.result.credentials = None
        /\ cred_last.result.error = "No Google connection found"
        /\ cred_last.result # NeedsReauthResult
        /\ ~cred_last.network
        /\ Stored = None
        /\ CountFor(connected_calendars, ThisFirm) = 0

\* C10 witness: the firm has no document while another firm has one.
C10_Witness ==
    /\ Called
    /\ Before = None
    /\ CountFor(connected_calendars, OtherFirm) = 1
    /\ ~cred_last.result.success

C25_FreshTokenIsNotRefreshed ==
    (/\ Called
     /\ Before # None
     /\ Before[1].token_status = "active"
     /\ Before[1].access_token # None
     /\ Before[1].refresh_token # None
     /\ Before[1].token_expiry # None
     /\ Before[1].token_expiry[1] > now + BufferMinutes) =>
        /\ ~cred_last.network
        /\ cred_last.result.success
        /\ cred_last.result.credentials[1].token = Before[1].access_token
        /\ Stored = Before

\* C26: a get_valid_credentials call whose refresh succeeded returns the
\* refreshed credentials, and the stored document then holds their access
\* token with refresh_error_count 0 and token_status active.
C26_RefreshSuccessIsStored ==
    (Called /\ cred_last.network /\ cred_last.outcome = "ok") =>
        /\ cred_last.result.success
        /\ cred_last.result.credentials # None
        /\ cred_last.result.credentials[1].token
              = Some(AccessToken(now + TokenLifetime))
        /\ Stored # None
        /\ Stored[1].access_token = cred_last.result.credentials[1].token
        /\ Stored[1].refresh_error_count = 0
        /\ Stored[1].token_status = "active"

\* C26 witness: the token replaced had expired.
C26_Witness ==
    /\ Called
    /\ cred_last.network
    /\ cred_last.result.success
    /\ TokenExpired(Before[1], now)
    /\ ~TokenExpired(Stored[1], now)
    /\ Stored[1].access_token # Before[1].access_token

\* C29: the firm has at most one document in firm_availability and at
\* most one in connected_calendars, also while first reads of the schedule
\* and reconnects of the firm interleave.
C29_OneDocumentPerFirm ==
    /\ CountFor(firm_availability, ThisFirm) <= 1
    /\ CountFor(connected_calendars, ThisFirm) <= 1

\* C6 (as claimed): once the stored token_status is needs_reauth, only
\* store_calendar_connection changes it.
C6_NeedsReauthUntilReconnect ==
    [][(/\ Stored # None
        /\ Stored[1].token_status = "needs_reauth"
        /\ Stored' # None
        /\ Stored'[1].token_status # "needs_reauth")
       => cred_last'.op = "store_calendar_connection"]_vars

====
